---- MODULE Spec2Model ----
(***************************************************************************)
(* Model of monthly_sales_report.py: main() walks the store folders under  *)
(* LOCAL_UNZIPPED_BASE, process_store_data() turns the four DBF tables of  *)
(* one store (str, cat, jnh, jnl) into summary rows, and main() writes the *)
(* concatenation of the non-empty per-store results as the report.         *)
(*                                                                         *)
(* A DataFrame is [cols, rows]: the set of column names and the sequence   *)
(* of rows, each row a function from the column names to a cell.  A cell   *)
(* is Null (None / NaN), Num(n) or Str(s).                                 *)
(***************************************************************************)
EXTENDS Integers, Sequences, FiniteSets, TLC

\* ------------------------------------------------------------------ bounds
MaxRows == 2
MaxRefRows == 1
NumStores == 2

\* ------------------------------------------------------------------- cells
Null == [null |-> TRUE]
Num(n) == [num |-> n]
Str(s) == [str |-> s]
IsNum(v) == "num" \in DOMAIN v
IsStr(v) == "str" \in DOMAIN v

\* Python's str() of a cell: a string is itself, None is "None", a number
\* is its decimal text.
PyStr(v) ==
  IF v = Null THEN "None" ELSE IF IsStr(v) THEN v.str ELSE ToString(v.num)

\* ------------------------------------------------------ files and frames
Missing == [kind |-> "missing"]
Corrupt == [kind |-> "corrupt"]
Dbf(cols, rows) == [kind |-> "dbf", cols |-> cols, rows |-> rows]

DataFrame(cols, rows) == [cols |-> cols, rows |-> rows]
EmptyFrame == DataFrame({}, <<>>)
ReportCols ==
  {"Astoreid", "Storename", "date", "Type", "sale_amount", "sale_count", "currency"}

\* DataFrame.empty: some axis has length 0.
Empty(df) == df.cols = {} \/ Len(df.rows) = 0

\* read_dbf_to_df on a file that does not raise: a missing file gives the
\* empty frame; pd.DataFrame(iter(table)) of a table with no record has no
\* column either.
read_dbf_to_df(f) ==
  IF f.kind = "missing" \/ Len(f.rows) = 0 THEN EmptyFrame
  ELSE DataFrame(f.cols, f.rows)

\* DBF(dbf_path, load=True) raises on a file that is not a DBF table.
Raises(f) == f.kind = "corrupt"

\* ------------------------------------------------------ bounded inputs
\* The directory tree under LOCAL_UNZIPPED_BASE is the input of a run.  A row
\* of a table takes its cells from a per-column domain.
RECURSIVE RowsOver(_, _)
RowsOver(cols, dom) ==
  IF cols = {} THEN {<<>>}
  ELSE LET c == CHOOSE x \in cols : TRUE
       IN {(c :> v) @@ r : v \in dom[c], r \in RowsOver(cols \ {c}, dom)}

Tables(schemas, dom, lo, hi) ==
  UNION {{Dbf(s, r) : r \in UNION {[1..k -> RowsOver(s, dom)] : k \in lo..hi}} :
         s \in schemas}

JnlDom ==
  [LINE |-> {Str("950"), Str("980")}, SALE |-> {Num(1), Num(2)},
   CAT |-> {Str("A"), Str("B")}, PRICE |-> {Null, Num(2)},
   QTY |-> {Null, Num(3)}, AMT |-> {Null, Num(5)}]
JnlSchemas ==
  {{"LINE", "SALE", "CAT", "PRICE"}, {"LINE", "CAT", "PRICE", "QTY"},
   {"LINE", "CAT", "AMT"}, {"LINE", "SALE", "CAT"}, {"LINE", "SALE", "PRICE"}}

JnlDomFew ==
  [LINE |-> {Str("950")}, SALE |-> {Num(1)},
   CAT |-> {Str("A"), Str("B")}, PRICE |-> {Num(2)}]

JnhDom == [SALE |-> {Num(1), Num(2)}, DATE |-> {Str("2024-01-05")}]
JnhSchemas == {{"SALE", "DATE"}, {"SALE"}, {"DATE"}}

CatDom ==
  [CAT |-> {Str("A")}, CODE |-> {Str("N"), Str("X")}, NAME |-> {Str("Food"), Null}]
CatSchemas == {{"CAT", "CODE", "NAME"}, {"CAT", "CODE"}, {"CAT", "NAME"}, {"CODE", "NAME"}}

StrDom == [NAME |-> {Str("Main St"), Null}, CITY |-> {Str("Reno")}]
StrSchemas == {{"NAME"}, {"CITY"}}

Folder(id, s, c, h, l) ==
  [name |-> id, is_dir |-> TRUE, str |-> s, cat |-> c, jnh |-> h, jnl |-> l]
PlainFile(id) ==
  [name |-> id, is_dir |-> FALSE, str |-> Missing, cat |-> Missing,
   jnh |-> Missing, jnl |-> Missing]
StoreId(i) == "store" \o ToString(i)

\* One store, every journal up to MaxRows rows, a few reference tables.
JournalTrees ==
  {<<Folder(StoreId(1), Missing, c, h, l)>> :
     c \in {Missing} \cup Tables({{"CAT", "CODE", "NAME"}, {"CAT", "NAME"}},
                                 [CAT |-> {Str("A")}, CODE |-> {Str("N")},
                                  NAME |-> {Str("Food")}], 1, 1),
     h \in {Missing} \cup Tables({{"SALE", "DATE"}},
                                 [SALE |-> {Num(1)}, DATE |-> {Str("2024-01-05")}], 1, 1),
     l \in Tables(JnlSchemas, JnlDom, 0, MaxRows)}

\* One store, a two-line journal, every reference table up to MaxRefRows rows.
ReferenceTrees ==
  {<<Folder(StoreId(1), s, c, h, l)>> :
     s \in {Missing, Dbf({"NAME"}, <<>>)} \cup Tables(StrSchemas, StrDom, 1, 1),
     c \in {Missing} \cup Tables(CatSchemas, CatDom, 0, MaxRefRows),
     h \in {Missing} \cup Tables(JnhSchemas, JnhDom, 0, MaxRefRows),
     l \in Tables({{"LINE", "SALE", "CAT", "PRICE"}}, JnlDomFew, 2, 2)}

\* Up to NumStores directory entries, each one of a few kinds.
EntryKinds(id) ==
  {PlainFile(id),
   Folder(id, Missing, Missing, Missing, Missing),
   Folder(id, Missing, Missing, Missing, Corrupt),
   Folder(id, Corrupt, Missing, Missing, Missing),
   Folder(id, Dbf({"NAME"}, <<[NAME |-> Str("Main St")]>>),
          Dbf({"CAT", "CODE", "NAME"},
              <<[CAT |-> Str("A"), CODE |-> Str("N"), NAME |-> Str("Food")]>>),
          Dbf({"SALE", "DATE"}, <<[SALE |-> Num(1), DATE |-> Str("2024-01-05")]>>),
          Dbf({"LINE", "SALE", "CAT", "PRICE"},
              <<[LINE |-> Str("950"), SALE |-> Num(1), CAT |-> Str("A"), PRICE |-> Num(2)]>>)),
   Folder(id, Missing,
          Dbf({"CAT", "CODE"}, <<[CAT |-> Str("A"), CODE |-> Str("X")]>>),
          Missing,
          Dbf({"LINE", "CAT", "PRICE"},
              <<[LINE |-> Str("950"), CAT |-> Str("A"), PRICE |-> Num(2)]>>))}
ManyStoreTrees ==
  UNION {{t \in [1..n -> UNION {EntryKinds(StoreId(i)) : i \in 1..n}] :
            \A i \in 1..n : t[i].name = StoreId(i)} : n \in 0..NumStores}

\* ------------------------------------------------------- pandas helpers
\* df[c] = f(row): assigns a column, replacing it when it exists.
WithCol(df, c, cells) ==
  DataFrame(df.cols \cup {c},
            [i \in 1..Len(df.rows) |-> (c :> cells[i]) @@ df.rows[i]])

\* df[c] = v: the same cell in every row.
Scalar(df, v) == [i \in 1..Len(df.rows) |-> v]

\* df[cols]: keeps the named columns.
Project(df, cols) ==
  DataFrame(cols, [i \in 1..Len(df.rows) |-> [c \in cols |-> df.rows[i][c]]])

RECURSIVE Flatten(_)
Flatten(ss) == IF ss = <<>> THEN <<>> ELSE Head(ss) \o Flatten(Tail(ss))

\* how="inner" in place of how="left": a row of l with no match is dropped.
MergeInner(l, r, key) ==
  LET rcols == r.cols \ {key}
      cols == l.cols \cup rcols
      Row(a, b) == [c \in cols |-> IF c \in l.cols THEN a[c] ELSE b[c]]
      Matches(a) == SelectSeq(r.rows, LAMBDA b : b[key] = a[key])
      Expand(a) == [j \in 1..Len(Matches(a)) |-> Row(a, Matches(a)[j])]
  IN DataFrame(cols, Flatten([i \in 1..Len(l.rows) |-> Expand(l.rows[i])]))

\* pd.merge(l, r, on=key, how="left"): every row of l, in order, once per row
\* of r with the same key, or once with null cells when r has no such row.
\* Columns other than the key that both frames have get the suffixes _x, _y.
Merge(l, r, key) ==
  LET both == (l.cols \cap r.cols) \ {key}
      LName(c) == IF c \in both THEN c \o "_x" ELSE c
      RName(c) == IF c \in both THEN c \o "_y" ELSE c
      rcols == r.cols \ {key}
      cols == {LName(c) : c \in l.cols} \cup {RName(c) : c \in rcols}
      Row(a, b) ==
        [c \in cols |->
           IF \E lc \in l.cols : LName(lc) = c
           THEN a[CHOOSE lc \in l.cols : LName(lc) = c]
           ELSE b[CHOOSE rc \in rcols : RName(rc) = c]]
      NoMatch == [c \in rcols |-> Null]
      Matches(a) == SelectSeq(r.rows, LAMBDA b : b[key] = a[key])
      Expand(a) ==
        IF Matches(a) = <<>> THEN <<Row(a, NoMatch)>>
        ELSE [j \in 1..Len(Matches(a)) |-> Row(a, Matches(a)[j])]
  IN DataFrame(cols, Flatten([i \in 1..Len(l.rows) |-> Expand(l.rows[i])]))

\* Series * Series: a null operand gives a null product.
Mul(a, b) == IF a = Null \/ b = Null THEN Null ELSE Num(a.num * b.num)

\* Series.sum(): nulls are skipped, the sum of nothing is 0.
RECURSIVE SumCells(_)
SumCells(cells) ==
  IF cells = <<>> THEN 0
  ELSE (IF Head(cells) = Null THEN 0 ELSE Head(cells).num) + SumCells(Tail(cells))

\* Series.size in place of Series.count(): null cells are counted too.
CountCellsSize(cells) == Len(cells)

\* Series.count(): the number of cells that are not null.
CountCells(cells) == Len(SelectSeq(cells, LAMBDA v : v # Null))

Column(rows, c) == [i \in 1..Len(rows) |-> rows[i][c]]

\* The order groupby(sort=True) gives the group keys: strings in collation
\* order, a null key after every other.
Collation == <<"2024-01-05", "Food">>
CellRank(v) ==
  IF v = Null THEN Len(Collation) + 1
  ELSE CHOOSE i \in 1..Len(Collation) : Collation[i] = v.str

RECURSIVE KeyLess(_, _, _)
KeyLess(a, b, by) ==
  /\ by # <<>>
  /\ \/ CellRank(a[Head(by)]) < CellRank(b[Head(by)])
     \/ a[Head(by)] = b[Head(by)] /\ KeyLess(a, b, Tail(by))

RECURSIVE SortKeys(_, _)
SortKeys(keys, by) ==
  IF keys = {} THEN <<>>
  ELSE LET m == CHOOSE x \in keys : \A y \in keys \ {x} : KeyLess(x, y, by)
       IN <<m>> \o SortKeys(keys \ {m}, by)

\* groupby without dropna=False: a row with a null key is in no group.
GroupByDropNa(df, by) ==
  LET bset == {by[i] : i \in 1..Len(by)}
      KeyOf(r) == [c \in bset |-> r[c]]
      kept == SelectSeq(df.rows, LAMBDA r : \A c \in bset : r[c] # Null)
      keys == SortKeys({KeyOf(kept[i]) : i \in 1..Len(kept)}, by)
      Members(k) == SelectSeq(kept, LAMBDA r : KeyOf(r) = k)
      Agg(k) ==
        ("sale_amount" :> Num(SumCells(Column(Members(k), "line_amount"))))
        @@ ("sale_count" :> Num(CountCells(Column(Members(k), "line_amount"))))
        @@ k
  IN DataFrame(bset \cup {"sale_amount", "sale_count"},
               [i \in 1..Len(keys) |-> Agg(keys[i])])

\* df.groupby(by, dropna=False).agg(sale_amount=(line_amount, sum),
\* sale_count=(line_amount, count)).reset_index()
GroupBy(df, by) ==
  LET bset == {by[i] : i \in 1..Len(by)}
      KeyOf(r) == [c \in bset |-> r[c]]
      keys == SortKeys({KeyOf(df.rows[i]) : i \in 1..Len(df.rows)}, by)
      Members(k) == SelectSeq(df.rows, LAMBDA r : KeyOf(r) = k)
      Agg(k) ==
        ("sale_amount" :> Num(SumCells(Column(Members(k), "line_amount"))))
        @@ ("sale_count" :> Num(CountCells(Column(Members(k), "line_amount"))))
        @@ k
  IN DataFrame(bset \cup {"sale_amount", "sale_count"},
               [i \in 1..Len(keys) |-> Agg(keys[i])])

\* ------------------------------------------------------------------ state
VARIABLES
  base_is_dir,   \* os.path.isdir(LOCAL_UNZIPPED_BASE)
  tree,          \* the entries os.scandir yields, with each store's four files
  pc,            \* the statement main() or process_store_data() is at
  store_folders, \* main: the (store_id, folder) list, as indexes into tree
  k,             \* main: position of the for loop in store_folders
  all_dfs,       \* main: the non-empty per-store frames so far
  final_df,      \* main: the combined frame
  report,        \* the CSV file at REPORT_PATH
  df_str, df_cat, df_jnh, df_jnl,  \* process_store_data: the loaded tables
  store_name,    \* process_store_data: the display name
  df_merged,     \* process_store_data: the working frame
  grouped,       \* process_store_data: the aggregated frame
  df_store       \* main: what process_store_data returned

mainVars == <<store_folders, k, all_dfs, final_df, report>>
loadVars == <<df_str, df_cat, df_jnh, df_jnl>>
vars ==
  <<base_is_dir, tree, pc, store_folders, k, all_dfs, final_df, report,
    df_str, df_cat, df_jnh, df_jnl, store_name, df_merged, grouped, df_store>>

NoFile == [kind |-> "none"]
store_id == tree[store_folders[k]].name
folder == tree[store_folders[k]]

Init ==
  /\ pc = "main"
  /\ \/ base_is_dir = TRUE /\ tree \in JournalTrees \cup ReferenceTrees \cup ManyStoreTrees
     \/ base_is_dir = FALSE /\ tree = <<>>
  /\ store_folders = <<>>
  /\ k = 0
  /\ all_dfs = <<>>
  /\ final_df = EmptyFrame
  /\ report = NoFile
  /\ df_str = EmptyFrame /\ df_cat = EmptyFrame
  /\ df_jnh = EmptyFrame /\ df_jnl = EmptyFrame
  /\ store_name = ""
  /\ df_merged = EmptyFrame
  /\ grouped = EmptyFrame
  /\ df_store = EmptyFrame

\* ------------------------------------------------------------------- main
\* find_store_folders: the sub-directories of the base directory, in scan
\* order; none when the base is no directory.
find_store_folders ==
  IF ~base_is_dir THEN <<>>
  ELSE LET idx == [i \in 1..Len(tree) |-> i]
       IN SelectSeq(idx, LAMBDA i : tree[i].is_dir)

FindStoreFolders ==
  /\ pc = "main"
  /\ store_folders' = find_store_folders
  /\ all_dfs' = <<>>
  /\ k' = 1
  /\ pc' = "for"
  /\ UNCHANGED <<base_is_dir, tree, final_df, report, loadVars, store_name,
                 df_merged, grouped, df_store>>

\* for store_id, folder_path in store_folders: the call of process_store_data
ForStore ==
  /\ pc = "for"
  /\ k <= Len(store_folders)
  /\ pc' = "load"
  /\ df_str' = EmptyFrame /\ df_cat' = EmptyFrame
  /\ df_jnh' = EmptyFrame /\ df_jnl' = EmptyFrame
  /\ store_name' = ""
  /\ df_merged' = EmptyFrame
  /\ grouped' = EmptyFrame
  /\ df_store' = EmptyFrame
  /\ UNCHANGED <<base_is_dir, tree, mainVars>>

ForDone ==
  /\ pc = "for"
  /\ k > Len(store_folders)
  /\ pc' = "concat"
  /\ UNCHANGED <<base_is_dir, tree, mainVars, loadVars, store_name, df_merged,
                 grouped, df_store>>

\* ----------------------------------------------------- process_store_data
\* 2) the four reads; an exception of DBF() leaves process_store_data and
\* main(), which catch nothing.
AnyRaises == Raises(folder.str) \/ Raises(folder.cat) \/ Raises(folder.jnh) \/ Raises(folder.jnl)

LoadTables ==
  /\ pc = "load"
  /\ ~AnyRaises
  /\ df_str' = read_dbf_to_df(folder.str)
  /\ df_cat' = read_dbf_to_df(folder.cat)
  /\ df_jnh' = read_dbf_to_df(folder.jnh)
  /\ df_jnl' = read_dbf_to_df(folder.jnl)
  /\ pc' = "name"
  /\ UNCHANGED <<base_is_dir, tree, mainVars, store_name, df_merged, grouped, df_store>>

LoadRaises ==
  /\ pc = "load"
  /\ AnyRaises
  /\ pc' = "raised"
  /\ UNCHANGED <<base_is_dir, tree, mainVars, loadVars, store_name, df_merged,
                 grouped, df_store>>

\* The fallback forgotten: without a NAME the display name is left blank.
StoreNameBlank(str, sid) ==
  IF ~Empty(str) /\ "NAME" \in str.cols THEN PyStr(str.rows[1]["NAME"]) ELSE ""

\* 3) the store name, or the store id when str has no NAME to give
StoreNameOf(str, sid) ==
  IF ~Empty(str) /\ "NAME" \in str.cols THEN PyStr(str.rows[1]["NAME"])
  ELSE PyStr(Str(sid))

StoreName ==
  /\ pc = "name"
  /\ store_name' = StoreNameOf(df_str, store_id)
  /\ pc' = "jnl"
  /\ UNCHANGED <<base_is_dir, tree, mainVars, loadVars, df_merged, grouped, df_store>>

\* A row of zeros in place of no row.
NoJournalZeroRow ==
  DataFrame(ReportCols,
            <<[c \in ReportCols |->
                 IF c \in {"sale_amount", "sale_count"} THEN Num(0) ELSE Null]>>)

\* 4) no journal: an empty frame with the report's columns is returned
NoJournalResult == DataFrame(ReportCols, <<>>)

JnlCheck ==
  /\ pc = "jnl"
  /\ IF Empty(df_jnl)
     THEN /\ df_store' = NoJournalResult
          /\ pc' = "append"
          /\ UNCHANGED df_merged
     ELSE /\ df_merged' = df_jnl
          /\ pc' = "merge_jnh"
          /\ UNCHANGED df_store
  /\ UNCHANGED <<base_is_dir, tree, mainVars, loadVars, store_name, grouped>>

\* 5) jnl + jnh on SALE, when jnh has rows, SALE is on both sides and jnh
\* has DATE
MergeJnhOf(merged, jnh) ==
  IF ~Empty(jnh) /\ "SALE" \in jnh.cols /\ "SALE" \in merged.cols /\ "DATE" \in jnh.cols
  THEN Merge(merged, Project(jnh, {"SALE", "DATE"}), "SALE")
  ELSE merged

MergeJnh ==
  /\ pc = "merge_jnh"
  /\ df_merged' = MergeJnhOf(df_merged, df_jnh)
  /\ pc' = "merge_cat"
  /\ UNCHANGED <<base_is_dir, tree, mainVars, loadVars, store_name, grouped, df_store>>

\* 6) + cat on CAT, or the placeholder columns CODE and NAME
CanMergeCat(merged, cat) ==
  ~Empty(cat) /\ "CAT" \in cat.cols /\ "CAT" \in merged.cols

MergeCatOf(merged, cat) ==
  IF CanMergeCat(merged, cat) THEN Merge(merged, cat, "CAT")
  ELSE WithCol(WithCol(merged, "CODE", Scalar(merged, Null)), "NAME", Scalar(merged, Null))

MergeCat ==
  /\ pc = "merge_cat"
  /\ df_merged' = MergeCatOf(df_merged, df_cat)
  /\ pc' = "filter"
  /\ UNCHANGED <<base_is_dir, tree, mainVars, loadVars, store_name, grouped, df_store>>

\* 7) keep CODE == "N" when the frame has a CODE column
FilterOf(merged) ==
  IF "CODE" \in merged.cols
  THEN DataFrame(merged.cols, SelectSeq(merged.rows, LAMBDA r : r["CODE"] = Str("N")))
  ELSE merged

Filter ==
  /\ pc = "filter"
  /\ df_merged' = FilterOf(df_merged)
  /\ pc' = "amount"
  /\ UNCHANGED <<base_is_dir, tree, mainVars, loadVars, store_name, grouped, df_store>>

\* 8) line_amount: PRICE * QTY, else PRICE, else AMT, else 0
LineAmountOf(merged) ==
  IF "PRICE" \in merged.cols
  THEN IF "QTY" \in merged.cols
       THEN WithCol(merged, "line_amount",
                    [i \in 1..Len(merged.rows) |->
                       Mul(merged.rows[i]["PRICE"], merged.rows[i]["QTY"])])
       ELSE WithCol(merged, "line_amount", Column(merged.rows, "PRICE"))
  ELSE IF "AMT" \in merged.cols
       THEN WithCol(merged, "line_amount", Column(merged.rows, "AMT"))
       ELSE WithCol(merged, "line_amount", Scalar(merged, Num(0)))

LineAmount ==
  /\ pc = "amount"
  /\ df_merged' = LineAmountOf(df_merged)
  /\ pc' = "group"
  /\ UNCHANGED <<base_is_dir, tree, mainVars, loadVars, store_name, grouped, df_store>>

\* 9) group on whichever of DATE and NAME exist, or one row of totals
GroupCols(merged) ==
  SelectSeq(<<"DATE", "NAME">>, LAMBDA c : c \in merged.cols)

AggregateOf(merged) ==
  IF GroupCols(merged) # <<>> THEN GroupBy(merged, GroupCols(merged))
  ELSE DataFrame({"sale_amount", "sale_count"},
                 <<[sale_amount |-> Num(SumCells(Column(merged.rows, "line_amount"))),
                    sale_count |-> Num(CountCells(Column(merged.rows, "line_amount")))]>>)

Aggregate ==
  /\ pc = "group"
  /\ grouped' = AggregateOf(df_merged)
  /\ pc' = "build"
  /\ UNCHANGED <<base_is_dir, tree, mainVars, loadVars, store_name, df_merged, df_store>>

\* 10) 11) store id, store name and currency; DATE -> date, NAME -> Type;
\* the report columns that are still absent are added as None
Rename(df, from, to) ==
  IF from \notin df.cols THEN df
  ELSE LET cols == (df.cols \ {from}) \cup {to}
       IN DataFrame(cols,
            [i \in 1..Len(df.rows) |->
               [c \in cols |-> IF c = to THEN df.rows[i][from] ELSE df.rows[i][c]]])

Backfill(df, cols) ==
  DataFrame(df.cols \cup cols,
            [i \in 1..Len(df.rows) |->
               [c \in df.cols \cup cols |->
                  IF c \in df.cols THEN df.rows[i][c] ELSE Null]])

\* The currency assignment forgotten: the column is back-filled with None.
BuildNoCurrency(g, sid, name) ==
  LET tagged ==
        WithCol(WithCol(g, "Astoreid", Scalar(g, Str(sid))),
                "Storename", Scalar(g, Str(name)))
      renamed == Rename(Rename(tagged, "DATE", "date"), "NAME", "Type")
  IN Project(Backfill(renamed, ReportCols), ReportCols)

BuildOf(g, sid, name) ==
  LET tagged ==
        WithCol(WithCol(WithCol(g, "Astoreid", Scalar(g, Str(sid))),
                        "Storename", Scalar(g, Str(name))),
                "currency", Scalar(g, Str("USD")))
      renamed == Rename(Rename(tagged, "DATE", "date"), "NAME", "Type")
  IN Project(Backfill(renamed, ReportCols), ReportCols)

Build ==
  /\ pc = "build"
  /\ df_store' = BuildOf(grouped, store_id, store_name)
  /\ pc' = "append"
  /\ UNCHANGED <<base_is_dir, tree, mainVars, loadVars, store_name, df_merged, grouped>>

\* ------------------------------------------------------------ main, again
\* if not df_store.empty: all_dfs.append(df_store)
AppendStore ==
  /\ pc = "append"
  /\ all_dfs' = IF ~Empty(df_store) THEN Append(all_dfs, df_store) ELSE all_dfs
  /\ k' = k + 1
  /\ pc' = "for"
  /\ UNCHANGED <<base_is_dir, tree, store_folders, final_df, report, loadVars,
                 store_name, df_merged, grouped, df_store>>

\* 3) pd.concat(all_dfs, ignore_index=True), or the empty report frame
ConcatOf(dfs) ==
  IF dfs # <<>>
  THEN DataFrame(UNION {dfs[i].cols : i \in 1..Len(dfs)},
                 Flatten([i \in 1..Len(dfs) |-> dfs[i].rows]))
  ELSE DataFrame(ReportCols, <<>>)

Concat ==
  /\ pc = "concat"
  /\ final_df' = ConcatOf(all_dfs)
  /\ pc' = "write"
  /\ UNCHANGED <<base_is_dir, tree, store_folders, k, all_dfs, report, loadVars,
                 store_name, df_merged, grouped, df_store>>

\* 4) final_df.to_csv(REPORT_PATH): the report is written, or the write
\* raises and the run ends without a report
WriteReport ==
  /\ pc = "write"
  /\ report' = [kind |-> "csv", cols |-> final_df.cols, rows |-> final_df.rows]
  /\ pc' = "done"
  /\ UNCHANGED <<base_is_dir, tree, store_folders, k, all_dfs, final_df, loadVars,
                 store_name, df_merged, grouped, df_store>>

WriteRaises ==
  /\ pc = "write"
  /\ pc' = "write_failed"
  /\ UNCHANGED <<base_is_dir, tree, mainVars, loadVars, store_name, df_merged,
                 grouped, df_store>>

Next ==
  \/ FindStoreFolders
  \/ ForStore
  \/ ForDone
  \/ LoadTables
  \/ LoadRaises
  \/ StoreName
  \/ JnlCheck
  \/ MergeJnh
  \/ MergeCat
  \/ Filter
  \/ LineAmount
  \/ Aggregate
  \/ Build
  \/ AppendStore
  \/ Concat
  \/ WriteReport
  \/ WriteRaises

Spec == Init /\ [][Next]_vars

\* ================================================================= claims
\* process_store_data has returned df_store to main.
Returned == pc = "append"
JournalPresent == ~Empty(df_jnl)

RowSet(df) == {df.rows[i] : i \in 1..Len(df.rows)}

\* The total of a numeric column, a null cell counting for nothing.
RECURSIVE ColumnTotal(_, _)
ColumnTotal(rows, c) ==
  IF rows = <<>> THEN 0
  ELSE (IF Head(rows)[c] = Null THEN 0 ELSE Head(rows)[c].num)
       + ColumnTotal(Tail(rows), c)

\* The adjacent journal pairs (i, i+1) with LINE 950 then 980.
PairCount(rows) ==
  Cardinality({i \in 1..(Len(rows) - 1) :
                 rows[i]["LINE"] = Str("950") /\ rows[i + 1]["LINE"] = Str("980")})

\* The rows of df whose journal columns are those of the journal record j.
Copies(df, j) ==
  Len(SelectSeq(df.rows, LAMBDA m : [c \in df_jnl.cols |-> m[c]] = j))

\* Every journal record is in df at least as often as in the journal.
KeepsJournal(df) ==
  /\ df_jnl.cols \subseteq df.cols
  /\ \A i \in 1..Len(df_jnl.rows) :
       Copies(df, df_jnl.rows[i]) >= Copies(df_jnl, df_jnl.rows[i])

WithAmount(df) == SelectSeq(df.rows, LAMBDA m : m["line_amount"] # Null)

C2_NoCatKeepsRecords ==
  (pc = "amount" /\ ~CanMergeCat(df_merged, df_cat)) => KeepsJournal(df_merged)

\* ---- C3
\* The store named by the cell sid has a journal table with records.
HasJournal(sid) ==
  \E i \in 1..Len(tree) :
    /\ tree[i].name = sid.str
    /\ tree[i].jnl.kind = "dbf"
    /\ ~Empty(read_dbf_to_df(tree[i].jnl))

\* C3: a store whose journal is missing or empty returns zero rows, and no
\* row of such a store is in what main collects, combines or writes.
C3_NoJournalNoRows ==
  /\ (Returned /\ ~JournalPresent) => Len(df_store.rows) = 0
  /\ \A i \in 1..Len(all_dfs) : \A r \in RowSet(all_dfs[i]) : HasJournal(r["Astoreid"])
  /\ \A r \in RowSet(final_df) : HasJournal(r["Astoreid"])
  /\ report.kind = "csv" => \A r \in RowSet(report) : HasJournal(r["Astoreid"])

\* A store with reference tables and no journal has returned.
C3_Witness ==
  Returned /\ ~JournalPresent /\ ~Empty(df_cat) /\ ~Empty(df_jnh)

\* ---- C4
\* C4: a store with a journal of which no record is left after the filter
\* returns zero rows.
C4_NoEventsNoRows ==
  (Returned /\ JournalPresent /\ Len(df_merged.rows) = 0) => Len(df_store.rows) = 0

\* ---- C5
\* C5: the sale_amount total of the store's rows is the total line amount
\* of the records left after the filter.
C5_SumPreserved ==
  (Returned /\ JournalPresent)
    => ColumnTotal(df_store.rows, "sale_amount") = ColumnTotal(df_merged.rows, "line_amount")

\* Two groups, one of them with a null key, and a total that is not 0.
C5_Witness ==
  /\ Returned /\ JournalPresent
  /\ Len(df_store.rows) = 2
  /\ \E r \in RowSet(df_store) : r["date"] = Null \/ r["Type"] = Null
  /\ \A r \in RowSet(df_store) : r["sale_amount"] # Num(0)

\* ---- C6
\* C6: no error of one store's processing ends the run.
C6_StoreErrorNeverEndsRun == pc # "raised"

\* ---- C7
\* C7: with str missing or empty, every returned row carries the store id
\* as its Storename.
C7_NameFallsBackToId ==
  (Returned /\ Empty(df_str))
    => \A r \in RowSet(df_store) : r["Storename"] = Str(store_id)

C7_Witness == Returned /\ Empty(df_str) /\ Len(df_store.rows) > 0

\* ---- C8
\* C8 as stated: a returned row has a null date, Type, sale_amount or
\* sale_count only when the store had no grouping column at all.
C8_NullOnlyWithoutGrouping ==
  Returned =>
    \A r \in RowSet(df_store) :
      (r["date"] = Null \/ r["Type"] = Null \/ r["sale_amount"] = Null
         \/ r["sale_count"] = Null)
        => GroupCols(df_merged) = <<>>

\* C8 amended: a returned row has the seven report columns; Astoreid,
\* Storename, currency, sale_amount and sale_count are never null and
\* currency is "USD"; date (Type) is null only when the merged data has no
\* DATE (NAME) column or some record of it has a null DATE (NAME).
C8_RowsPopulated ==
  Returned =>
    \A r \in RowSet(df_store) :
      /\ DOMAIN r = ReportCols
      /\ r["Astoreid"] = Str(store_id)
      /\ IsStr(r["Storename"])
      /\ r["currency"] = Str("USD")
      /\ IsNum(r["sale_amount"]) /\ IsNum(r["sale_count"])
      /\ r["date"] = Null =>
           ("DATE" \notin df_merged.cols \/ \E m \in RowSet(df_merged) : m["DATE"] = Null)
      /\ r["Type"] = Null =>
           ("NAME" \notin df_merged.cols \/ \E m \in RowSet(df_merged) : m["NAME"] = Null)

\* A row grouped on NAME alone: its Type is set and its date is null.
C8_Witness ==
  /\ Returned
  /\ \E r \in RowSet(df_store) : r["date"] = Null /\ r["Type"] # Null
  /\ GroupCols(df_merged) = <<"NAME">>

\* ---- C9
\* C9: every record left after the filter is counted in its group: each
\* group's sale_count is the number of its records, and the sale_count total
\* is the number of records left after the filter.
C9_EveryRecordCounted ==
  (pc = "build" /\ JournalPresent) =>
    /\ ColumnTotal(grouped.rows, "sale_count") = Len(df_merged.rows)
    /\ \A g \in RowSet(grouped) :
         g["sale_count"] =
           Num(Len(SelectSeq(df_merged.rows,
                  LAMBDA m : \A c \in DOMAIN g \cap {"DATE", "NAME"} : m[c] = g[c])))

\* ---- C10
\* The jnh join was made; m matches no jnh row (no cat row).
JnhJoined ==
  ~Empty(df_jnh) /\ {"SALE", "DATE"} \subseteq df_jnh.cols /\ "SALE" \in df_jnl.cols
NoJnhRow(m) == \A h \in RowSet(df_jnh) : h["SALE"] # m["SALE"]
NoCatRow(m) == \A c \in RowSet(df_cat) : c["CAT"] # m["CAT"]

\* C10: every journal record survives the joins on SALE and on CAT, and an
\* unmatched record gets null reference fields.
C10_LeftJoins ==
  pc = "filter" =>
    /\ KeepsJournal(df_merged)
    /\ JnhJoined =>
         \A m \in RowSet(df_merged) : NoJnhRow(m) => m["DATE"] = Null
    /\ CanMergeCat(df_merged, df_cat) =>
         \A m \in RowSet(df_merged) :
           NoCatRow(m) => \A c \in df_cat.cols \ {"CAT"} : m[c] = Null

\* Both joins were made and some record matched neither table.
C10_Witness ==
  /\ pc = "filter" /\ JnhJoined /\ CanMergeCat(df_merged, df_cat)
  /\ \E m \in RowSet(df_merged) : NoJnhRow(m) /\ NoCatRow(m)
  /\ \E m \in RowSet(df_merged) : ~NoJnhRow(m) /\ ~NoCatRow(m)
====
